---------------------------- MODULE Spec2Model ----------------------------
(***************************************************************************)
(* State-machine model of python_tools/deploy.py: one run of               *)
(* ContractDeployer().do_deploy().  The chain node, the solc compiler, the *)
(* IPFS daemon and the file system are the environment: every call into    *)
(* them either returns a value drawn from a small set or raises.           *)
(***************************************************************************)
EXTENDS Integers, Sequences, FiniteSets, TLC

VARIABLES
    pc,            \* position of the single thread of control
    err,           \* what ended the run abnormally ("" while none)
    current_chain, \* self.current_chain
    gas_price,     \* check_balance local
    gas_balance,   \* check_balance local
    client,        \* self._client: "unset", "None" or "connected"
    daemon,        \* TRUE once Popen(["ipfs", "daemon"]) has started a process
    abi,           \* self.abi
    bytecode,      \* self.bytecode
    estimated_gas, \* _deploy local
    construct_txn, \* _deploy local: the built transaction
    signed,        \* _deploy local: the signed transaction
    sent,          \* raw transactions broadcast to the chain node, in order
    tx_receipt,    \* _deploy local: the receipt
    contr_info,    \* _deploy local: the mapping read from the record file
    contr_address, \* self.contr_address
    towrite,       \* chunks json.dump has still to write
    file,          \* the record file on disk
    file0,         \* the record file as it was before the run
    ipfs_hash,     \* self.ipfs_hash
    ipfs_calls,    \* calls issued to the content store / daemon, in order
    ens_calls,     \* calls issued to the ENS registry and resolver, in order
    ens_state,     \* the records of the subdomain node on chain
    log,           \* messages logged, in order
    stages,        \* orchestrator stages completed, in order
    receipt_on_chain, \* the receipt the chain holds for the broadcast transaction
    other_pc,      \* position of another run that writes the same record file
    other_info,    \* the mapping that other run has read and merged
    other_seen,    \* where this run was when the other run wrote the file
    issued,        \* issuer contract: certificates issued
    revoked_certs, \* issuer contract: certificate hashes revoked
    revoked_batches, \* issuer contract: batches revoked
    calls          \* methods called on each Certificate object, in order

\* the state of this run
run_vars == <<pc, err, current_chain, gas_price, gas_balance, client, daemon,
              abi, bytecode, estimated_gas, construct_txn, signed, sent,
              tx_receipt, contr_info, contr_address, towrite, file, file0,
              ipfs_hash, ipfs_calls, ens_calls, ens_state, log, stages>>

\* the state of the other run
other_vars == <<other_pc, other_info, other_seen>>

\* the state of the issuer contract and of the Certificate objects
cert_vars == <<issued, revoked_certs, revoked_batches, calls>>

vars == <<run_vars, receipt_on_chain, other_vars, cert_vars>>

-----------------------------------------------------------------------------
(* Bounds of the model *)

\* largest gas price the node reports
MaxGasPrice == 2
\* gas estimates are multiples of EstimateUnit, up to MaxEstimate units
EstimateUnit == 50000
MaxEstimate == 2
\* largest transaction count (nonce) the node reports
MaxNonce == 1
\* most entries the record file holds before the run
MaxEntries == 2

-----------------------------------------------------------------------------
(* Values *)

\* the worst-case gas ceiling of check_balance
gas_limit == 600000

\* the key under which _deploy stores the record
ContractName == "blockcertsonchaining"

\* names of records other runs may have left in the file
OtherNames == {"othercontract", "thirdcontract"}

Names == {ContractName} \cup OtherNames

Chains == {"ropsten", "mainnet"}

\* what the compiler can produce for BlockCertsOnchaining
ABIs == {"abi1", "abi2"}

\* contract addresses a receipt can carry, in lower case or already in
\* checksum case; "null" stands for a receipt without a contractAddress
Addresses == {"0xab", "0xCd"}

\* record values found in the file before the run
OldValues == {[abi |-> "abi0", address |-> "0xAB"]}

GasPrices == 0..MaxGasPrice

\* balances on both sides of every threshold gas_limit * price
Balances == {b \in {gas_limit * p + d : p \in GasPrices, d \in {-1, 0, 1}} : b >= 0}

Estimates == {EstimateUnit * k : k \in 0..MaxEstimate}

Nonces == 0..MaxNonce

-----------------------------------------------------------------------------
(* The record file: JSON text as the sequence of chunks json.dump writes *)

Tok(t, v) == [t |-> t, v |-> v]

LBrace == Tok("{", "")
RBrace == Tok("}", "")
LBracket == Tok("[", "")
RBracket == Tok("]", "")

\* an entry of a Python dict (insertion-ordered): a key and its value
Entry(name, a, d) == [name |-> name, abi |-> a, address |-> d]

RECURSIVE EncodeEntries(_)
EncodeEntries(m) ==
    IF m = <<>> THEN <<>>
    ELSE <<Tok("key", m[1].name), Tok("abi", m[1].abi), Tok("address", m[1].address)>>
         \o EncodeEntries(Tail(m))

\* json.dump(contr_info, f): the chunks of the mapping, in dict order
JsonDump(m) == <<LBrace>> \o EncodeEntries(m) \o <<RBrace>>

HasKey(m, name) == \E i \in 1..Len(m) : m[i].name = name

\* d[name] = value on a Python dict: replace in place, or append
DictSet(m, name, a, d) ==
    IF HasKey(m, name)
    THEN [i \in 1..Len(m) |-> IF m[i].name = name THEN Entry(name, a, d) ELSE m[i]]
    ELSE Append(m, Entry(name, a, d))

\* d[name] on a Python dict (only used where the key is present)
DictGet(m, name) == LET i == CHOOSE i \in 1..Len(m) : m[i].name = name
                    IN  [abi |-> m[i].abi, address |-> m[i].address]

DictKeys(m) == {m[i].name : i \in 1..Len(m)}

\* chunks 3k-1 .. 3k+1 of a text are a whole "key": {"abi": .., "address": ..}
WellFormedBody(text) ==
    /\ (Len(text) - 2) % 3 = 0
    /\ \A k \in 1..((Len(text) - 2) \div 3) :
          /\ text[3 * k - 1].t = "key"
          /\ text[3 * k].t = "abi"
          /\ text[3 * k + 1].t = "address"

RECURSIVE ParseEntries(_, _)
ParseEntries(text, acc) ==
    IF Len(text) < 3 THEN acc
    ELSE ParseEntries(SubSeq(text, 4, Len(text)),
                      DictSet(acc, text[1].v, text[2].v, text[3].v))

\* json.loads(raw): a dict, a list, or a JSONDecodeError
JsonLoads(text) ==
    IF Len(text) >= 2 /\ text[1] = LBrace /\ text[Len(text)] = RBrace
       /\ WellFormedBody(text)
    THEN [kind |-> "dict",
          val |-> ParseEntries(SubSeq(text, 2, Len(text) - 1), <<>>)]
    ELSE IF text = <<LBracket, RBracket>>
    THEN [kind |-> "list", val |-> <<>>]
    ELSE [kind |-> "error", val |-> <<>>]

\* a file on disk: absent, or present with its text
Absent == [exists |-> FALSE, text |-> <<>>]
OnDisk(text) == [exists |-> TRUE, text |-> text]

\* the dicts earlier runs can have left: distinct names, at most MaxEntries
RECURSIVE DictsOfLen(_)
DictsOfLen(n) ==
    IF n = 0 THEN {<<>>}
    ELSE {Append(m, Entry(nm, v.abi, v.address)) :
            m \in DictsOfLen(n - 1), nm \in Names, v \in OldValues}

PriorDicts ==
    {m \in UNION {DictsOfLen(n) : n \in 0..MaxEntries} :
        Cardinality(DictKeys(m)) = Len(m)}

\* texts that are no JSON mapping: an empty file, a truncated mapping, a list
CorruptTexts ==
    { <<>>,
      <<LBrace, Tok("key", "othercontract"), Tok("abi", "abi0")>>,
      <<LBracket, RBracket>> }

\* the record file before the run
InitialFiles ==
    {Absent} \cup {OnDisk(JsonDump(m)) : m \in PriorDicts}
             \cup {OnDisk(t) : t \in CorruptTexts}

\* the Certificate objects of issuer_test.py: Certificate(batch, cert, contract)
Certificates ==
    { [batch |-> 100, cert |-> 50],
      [batch |-> 70, cert |-> 90],
      [batch |-> 705, cert |-> 905] }

-----------------------------------------------------------------------------
(* Initial state: the process has started, nothing has run yet *)

NoEnsRecords == [owner |-> "", resolver |-> "", addr |-> "", name |-> "",
                 contenthash |-> ""]
NoTxn == [nonce |-> -1, gas |-> -1]
NoReceipt == [status |-> -1, contractAddress |-> "unset"]

Init ==
    /\ pc = "start"
    /\ err = ""
    /\ current_chain = "unset"
    /\ gas_price = -1
    /\ gas_balance = -1
    /\ client = "unset"
    /\ daemon = FALSE
    /\ abi = "unset"
    /\ bytecode = "unset"
    /\ estimated_gas = -1
    /\ construct_txn = NoTxn
    /\ signed = NoTxn
    /\ sent = <<>>
    /\ tx_receipt = NoReceipt
    /\ contr_info = <<>>
    /\ contr_address = "unset"
    /\ towrite = <<>>
    /\ file0 \in InitialFiles
    /\ file = file0
    /\ ipfs_hash = "unset"
    /\ ipfs_calls = <<>>
    /\ ens_calls = <<>>
    /\ ens_state = NoEnsRecords
    /\ log = <<>>
    /\ stages = <<>>
    /\ receipt_on_chain = NoReceipt
    /\ other_pc = "idle"
    /\ other_info = <<>>
    /\ other_seen = "never"
    /\ issued = {}
    /\ revoked_certs = {}
    /\ revoked_batches = {}
    /\ calls = [c \in Certificates |-> <<>>]

-----------------------------------------------------------------------------
(* Helpers shared by the steps *)

Logged(msg, arg) == Append(log, [msg |-> msg, arg |-> arg])

\* an uncaught exception (or exit()) unwinds to process termination
Raise(how, e) == pc' = how /\ err' = e

\* the receipts the node can return for a contract creation: a successful
\* one carries the new address; a reverted one carries an address or none
Receipts ==
    {[status |-> 1, contractAddress |-> a] : a \in Addresses}
    \cup {[status |-> 0, contractAddress |-> a] : a \in Addresses \cup {"null"}}

\* what solc produces for the named contract
CompileOutputs == {[abi |-> a, bytecode |-> "bin-" \o a] : a \in ABIs}

-----------------------------------------------------------------------------
(* __init__ and check_balance *)

InsufficientBalance_le(balance, price) == balance <= gas_limit * price

\* line 51: the test that makes check_balance exit
InsufficientBalance(balance, price) == balance < gas_limit * price

\* __init__: read the chain from the configuration, connect, check_balance
check_balance ==
    /\ UNCHANGED <<other_vars, cert_vars, receipt_on_chain>>
    /\ pc = "start"
    /\ \E chain \in Chains, rpc_ok \in BOOLEAN, p \in GasPrices, b \in Balances :
          /\ current_chain' = chain
          /\ IF ~rpc_ok
             THEN /\ Raise("raised", "ConnectionError")
                  /\ UNCHANGED <<gas_price, gas_balance, stages>>
             ELSE /\ gas_price' = p
                  /\ gas_balance' = b
                  /\ IF InsufficientBalance(b, p)
                     THEN /\ Raise("exit", "SystemExit")
                          /\ UNCHANGED stages
                     ELSE /\ pc' = "checked"
                          /\ err' = ""
                          /\ stages' = Append(stages, "BalanceChecked")
    /\ UNCHANGED <<client, daemon, abi, bytecode, estimated_gas, construct_txn,
                   signed, sent, tx_receipt, contr_info, contr_address, towrite,
                   file, file0, ipfs_hash, ipfs_calls, ens_calls, ens_state, log>>

-----------------------------------------------------------------------------
(* _open_ipfs_connection *)

\* what can happen inside the try block of lines 67-76
IpfsOutcomes == {"popen_fails", "connect_fails", "connected"}

\* an opening whose failures are not caught
open_ipfs_connection_raise ==
    /\ UNCHANGED <<other_vars, cert_vars, receipt_on_chain>>
    /\ pc = "checked"
    /\ \E o \in IpfsOutcomes :
          /\ daemon' = (o # "popen_fails")
          /\ IF o = "connected"
             THEN /\ client' = "connected"
                  /\ log' = Logged("connected to IPFS", "")
                  /\ pc' = "opened"
                  /\ stages' = Append(stages, "ContentChannelOpened")
                  /\ UNCHANGED err
             ELSE /\ Raise("raised", "ConnectionError")
                  /\ UNCHANGED <<client, log, stages>>
    /\ gas_price' = -1
    /\ gas_balance' = -1
    /\ UNCHANGED <<current_chain, abi, bytecode, estimated_gas,
                   construct_txn, signed, sent, tx_receipt, contr_info,
                   contr_address, towrite, file, file0, ipfs_hash, ipfs_calls,
                   ens_calls, ens_state>>

\* the bare except of lines 77-79 turns every failure into self._client = None
open_ipfs_connection ==
    /\ UNCHANGED <<other_vars, cert_vars, receipt_on_chain>>
    /\ pc = "checked"
    /\ \E o \in IpfsOutcomes :
          /\ daemon' = (o # "popen_fails")
          /\ client' = IF o = "connected" THEN "connected" ELSE "None"
          /\ log' = IF o = "connected"
                    THEN Logged("connected to IPFS", "")
                    ELSE Logged("Not connected to IPFS", "")
    /\ pc' = "opened"
    /\ stages' = Append(stages, "ContentChannelOpened")
    \* check_balance has returned: its locals are gone
    /\ gas_price' = -1
    /\ gas_balance' = -1
    /\ UNCHANGED <<err, current_chain, abi, bytecode, estimated_gas,
                   construct_txn, signed, sent, tx_receipt, contr_info,
                   contr_address, towrite, file, file0, ipfs_hash, ipfs_calls,
                   ens_calls, ens_state>>

-----------------------------------------------------------------------------
(* _compile_contract *)

\* reading the source or the options, solc itself, or the lookup of the
\* named contract in the output can fail
CompileErrors == {"FileNotFoundError", "SolcError", "KeyError"}

compile_contract ==
    /\ UNCHANGED <<other_vars, cert_vars, receipt_on_chain>>
    /\ pc = "opened"
    /\ \/ \E out \in CompileOutputs :
             /\ abi' = out.abi
             /\ bytecode' = out.bytecode
             /\ pc' = "compiled"
             /\ stages' = Append(stages, "Compiled")
             /\ UNCHANGED err
       \/ \E e \in CompileErrors :
             /\ Raise("raised", e)
             /\ UNCHANGED <<abi, bytecode, stages>>
    /\ UNCHANGED <<current_chain, gas_price, gas_balance, client, daemon,
                   estimated_gas, construct_txn, signed, sent, tx_receipt,
                   contr_info, contr_address, towrite, file, file0, ipfs_hash,
                   ipfs_calls, ens_calls, ens_state, log>>

-----------------------------------------------------------------------------
(* _deploy: building, signing and broadcasting the transaction *)

\* lines 119-125: the constructor dry run
deploy_estimate ==
    /\ UNCHANGED <<other_vars, cert_vars, receipt_on_chain>>
    /\ pc = "compiled"
    /\ \/ \E e \in Estimates :
             /\ estimated_gas' = e
             /\ pc' = "estimated"
             /\ UNCHANGED err
       \/ /\ Raise("raised", "EstimateGasError")
          /\ UNCHANGED estimated_gas
    /\ UNCHANGED <<current_chain, gas_price, gas_balance, client, daemon, abi,
                   bytecode, construct_txn, signed, sent, tx_receipt,
                   contr_info, contr_address, towrite, file, file0, ipfs_hash,
                   ipfs_calls, ens_calls, ens_state, log, stages>>

TxnGas_plain(estimate) == estimate

\* line 128: the gas limit put into the transaction
TxnGas(estimate) == estimate * 2

\* lines 126-129: fetch the nonce and build the transaction
deploy_build ==
    /\ UNCHANGED <<other_vars, cert_vars, receipt_on_chain>>
    /\ pc = "estimated"
    /\ \/ \E n \in Nonces :
             /\ construct_txn' = [nonce |-> n, gas |-> TxnGas(estimated_gas)]
             /\ pc' = "built"
             /\ UNCHANGED err
       \/ /\ Raise("raised", "NonceError")
          /\ UNCHANGED construct_txn
    /\ UNCHANGED <<current_chain, gas_price, gas_balance, client, daemon, abi,
                   bytecode, estimated_gas, signed, sent, tx_receipt,
                   contr_info, contr_address, towrite, file, file0, ipfs_hash,
                   ipfs_calls, ens_calls, ens_state, log, stages>>

\* line 132: signing is local; the signed transaction carries the fields
\* of construct_txn
deploy_sign ==
    /\ UNCHANGED <<other_vars, cert_vars, receipt_on_chain>>
    /\ pc = "built"
    /\ \/ /\ signed' = construct_txn
          /\ pc' = "signed"
          /\ UNCHANGED err
       \/ /\ Raise("raised", "SigningError")
          /\ UNCHANGED signed
    /\ UNCHANGED <<current_chain, gas_price, gas_balance, client, daemon, abi,
                   bytecode, estimated_gas, construct_txn, sent, tx_receipt,
                   contr_info, contr_address, towrite, file, file0, ipfs_hash,
                   ipfs_calls, ens_calls, ens_state, log, stages>>

\* a sender that broadcasts again when the answer is lost
deploy_send_retry ==
    /\ UNCHANGED <<other_vars, cert_vars, receipt_on_chain>>
    /\ pc = "signed"
    /\ \/ /\ sent' = Append(sent, signed)
          /\ pc' = "sent"
          /\ UNCHANGED err
       \/ /\ Raise("raised", "BroadcastRejected")
          /\ UNCHANGED sent
       \/ /\ Len(sent) < 2
          /\ sent' = Append(sent, signed)
          /\ UNCHANGED <<pc, err>>
    /\ UNCHANGED <<current_chain, gas_price, gas_balance, client, daemon, abi,
                   bytecode, estimated_gas, construct_txn, signed, tx_receipt,
                   contr_info, contr_address, towrite, file, file0, ipfs_hash,
                   ipfs_calls, ens_calls, ens_state, log, stages>>

\* line 133: the node accepts the transaction, rejects it, or accepts it
\* and the answer is lost
deploy_send ==
    /\ UNCHANGED <<other_vars, cert_vars, receipt_on_chain>>
    /\ pc = "signed"
    /\ \/ /\ sent' = Append(sent, signed)
          /\ pc' = "sent"
          /\ UNCHANGED err
       \/ /\ Raise("raised", "BroadcastRejected")
          /\ UNCHANGED sent
       \/ /\ sent' = Append(sent, signed)
          /\ Raise("raised", "BroadcastTimeout")
    /\ UNCHANGED <<current_chain, gas_price, gas_balance, client, daemon, abi,
                   bytecode, estimated_gas, construct_txn, signed, tx_receipt,
                   contr_info, contr_address, towrite, file, file0, ipfs_hash,
                   ipfs_calls, ens_calls, ens_state, log, stages>>

\* a wait that swallows its failure and goes on to save the contract data
deploy_wait_swallow ==
    /\ UNCHANGED <<other_vars, cert_vars>>
    /\ pc = "sent"
    /\ \/ \E r \in Receipts :
             /\ tx_receipt' = r
             /\ receipt_on_chain' = r
             /\ pc' = "receipt"
             /\ log' = Logged("Gas used", "")
             /\ stages' = Append(stages, "Deployed")
             /\ UNCHANGED err
       \/ /\ pc' = "receipt"
          /\ UNCHANGED <<err, tx_receipt, receipt_on_chain, log, stages>>
    /\ UNCHANGED <<current_chain, gas_price, gas_balance, client, daemon, abi,
                   bytecode, estimated_gas, construct_txn, signed, sent,
                   contr_info, contr_address, towrite, file, file0, ipfs_hash,
                   ipfs_calls, ens_calls, ens_state>>

\* lines 134-135: block until the receipt is there; its status is not looked
\* at.  The gas used is only logged.
deploy_wait ==
    /\ UNCHANGED <<other_vars, cert_vars>>
    /\ pc = "sent"
    /\ \/ \E r \in Receipts :
             /\ tx_receipt' = r
             /\ receipt_on_chain' = r
             /\ pc' = "receipt"
             /\ log' = Logged("Gas used", "")
             /\ stages' = Append(stages, "Deployed")
             /\ UNCHANGED err
       \/ /\ Raise("raised", "ReceiptError")
          /\ UNCHANGED <<tx_receipt, receipt_on_chain, log, stages>>
    /\ UNCHANGED <<current_chain, gas_price, gas_balance, client, daemon, abi,
                   bytecode, estimated_gas, construct_txn, signed, sent,
                   contr_info, contr_address, towrite, file, file0, ipfs_hash,
                   ipfs_calls, ens_calls, ens_state>>

-----------------------------------------------------------------------------
(* _deploy: saving the contract data *)

SaveData_overwrite(info, a, d) == <<Entry(ContractName, a, d)>>

\* lines 143-144: contr_info["blockcertsonchaining"] = {'abi': .., 'address': ..}
SaveData(info, a, d) == DictSet(info, ContractName, a, d)

\* lines 138-144: read and parse the record file, then set this run's entry
deploy_read ==
    /\ UNCHANGED <<other_vars, cert_vars, receipt_on_chain>>
    /\ pc = "receipt"
    /\ \/ /\ ~file.exists
          /\ Raise("raised", "FileNotFoundError")
          /\ UNCHANGED <<contr_info, contr_address>>
       \/ /\ file.exists
          /\ Raise("raised", "OSError")
          /\ UNCHANGED <<contr_info, contr_address>>
       \/ /\ file.exists
          /\ JsonLoads(file.text).kind = "error"
          /\ Raise("raised", "JSONDecodeError")
          /\ UNCHANGED <<contr_info, contr_address>>
       \/ /\ file.exists
          /\ JsonLoads(file.text).kind = "list"
          /\ contr_address' = tx_receipt.contractAddress
          /\ Raise("raised", "TypeError")
          /\ UNCHANGED contr_info
       \/ /\ file.exists
          /\ JsonLoads(file.text).kind = "dict"
          /\ contr_address' = tx_receipt.contractAddress
          /\ contr_info' = SaveData(JsonLoads(file.text).val, abi,
                                    tx_receipt.contractAddress)
          /\ pc' = "merged"
          /\ UNCHANGED err
    /\ UNCHANGED <<current_chain, gas_price, gas_balance, client, daemon, abi,
                   bytecode, estimated_gas, construct_txn, signed, sent,
                   tx_receipt, towrite, file, file0, ipfs_hash, ipfs_calls,
                   ens_calls, ens_state, log, stages>>

\* a writer that reads and merges again when it opens the file for writing
deploy_open_reread ==
    /\ UNCHANGED <<other_vars, cert_vars, receipt_on_chain>>
    /\ pc = "merged"
    /\ \/ /\ file' = OnDisk(<<>>)
          /\ towrite' = JsonDump(IF file.exists /\ JsonLoads(file.text).kind = "dict"
                                  THEN SaveData(JsonLoads(file.text).val, abi,
                                                contr_address)
                                  ELSE contr_info)
          /\ pc' = "writing"
          /\ UNCHANGED err
       \/ /\ Raise("raised", "PermissionError")
          /\ UNCHANGED <<file, towrite>>
    /\ UNCHANGED <<current_chain, gas_price, gas_balance, client, daemon, abi,
                   bytecode, estimated_gas, construct_txn, signed, sent,
                   tx_receipt, contr_info, contr_address, file0, ipfs_hash,
                   ipfs_calls, ens_calls, ens_state, log, stages>>

\* line 146: open(path, "w+") truncates the file in place
deploy_open ==
    /\ UNCHANGED <<other_vars, cert_vars, receipt_on_chain>>
    /\ pc = "merged"
    /\ \/ /\ file' = OnDisk(<<>>)
          /\ towrite' = JsonDump(contr_info)
          /\ pc' = "writing"
          /\ UNCHANGED err
       \/ /\ Raise("raised", "PermissionError")
          /\ UNCHANGED <<file, towrite>>
    /\ UNCHANGED <<current_chain, gas_price, gas_balance, client, daemon, abi,
                   bytecode, estimated_gas, construct_txn, signed, sent,
                   tx_receipt, contr_info, contr_address, file0, ipfs_hash,
                   ipfs_calls, ens_calls, ens_state, log, stages>>

\* a byte the file system fills a hole with
Nul == Tok("nul", "")

\* f.write of one chunk at the position of the open file: over what is
\* there, at the end, or past the end when the file was cut meanwhile
WriteAt(text, pos, tok) ==
    IF pos <= Len(text)
    THEN [text EXCEPT ![pos] = tok]
    ELSE text \o [i \in 1..(pos - Len(text) - 1) |-> Nul] \o <<tok>>

\* line 147: json.dump writes the text chunk by chunk into the open file;
\* leaving the with block after the last chunk closes it
deploy_dump ==
    /\ UNCHANGED <<other_vars, cert_vars, receipt_on_chain>>
    /\ pc = "writing"
    /\ \/ /\ file' = OnDisk(WriteAt(file.text,
                                   Len(JsonDump(contr_info)) - Len(towrite) + 1,
                                   Head(towrite)))
          /\ towrite' = Tail(towrite)
          /\ IF Len(towrite) = 1
             THEN /\ pc' = "written"
                  /\ stages' = Append(stages, "RecordPersisted")
             ELSE UNCHANGED <<pc, stages>>
          /\ UNCHANGED err
       \/ /\ Raise("raised", "OSError")
          /\ UNCHANGED <<file, towrite, stages>>
    /\ UNCHANGED <<current_chain, gas_price, gas_balance, client, daemon, abi,
                   bytecode, estimated_gas, construct_txn, signed, sent,
                   tx_receipt, contr_info, contr_address, file0, ipfs_hash,
                   ipfs_calls, ens_calls, ens_state, log>>

\* line 150, and the return of _deploy
deploy_log ==
    /\ UNCHANGED <<other_vars, cert_vars, receipt_on_chain>>
    /\ pc = "written"
    /\ log' = Logged("deployed contr", contr_address)
    /\ pc' = "deployed"
    \* _deploy has returned: its locals are gone
    /\ estimated_gas' = -1
    /\ construct_txn' = NoTxn
    /\ signed' = NoTxn
    /\ tx_receipt' = NoReceipt
    /\ contr_info' = <<>>
    /\ UNCHANGED <<err, current_chain, gas_price, gas_balance, client, daemon,
                   abi, bytecode, sent, contr_address, towrite, file, file0,
                   ipfs_hash, ipfs_calls, ens_calls, ens_state, stages>>

-----------------------------------------------------------------------------
(* _update_ens_content: publishing the record file *)

\* content identifiers the store can return
IpfsHashes == {"QmOne", "QmTwo"}

\* values of tools.get_contr_info_path()
Paths == {"data/contr_info.json", "/tmp/contr_info.json"}

ShouldPublish_always(cl) == TRUE

\* line 83: publish only with a client
ShouldPublish(cl) == cl # "None"

\* lines 82-86
publish ==
    /\ UNCHANGED <<other_vars, cert_vars, receipt_on_chain>>
    /\ pc = "deployed"
    /\ IF ShouldPublish(client)
       THEN \/ \E path \in Paths, h \in IpfsHashes :
                  /\ ipfs_calls' = Append(ipfs_calls, [op |-> "add", arg |-> path])
                  /\ ipfs_hash' = h
                  /\ log' = Logged("IPFS Hash set to", h)
                  /\ pc' = "published"
                  /\ stages' = Append(stages, "ContentPublished")
                  /\ UNCHANGED err
            \/ \E path \in Paths :
                  /\ ipfs_calls' = Append(ipfs_calls, [op |-> "add", arg |-> path])
                  /\ ipfs_hash' = ""
                  /\ Raise("raised", "IpfsAddError")
                  /\ UNCHANGED <<log, stages>>
       ELSE /\ ipfs_hash' = ""
            /\ pc' = "published"
            /\ stages' = Append(stages, "ContentPublished")
            /\ UNCHANGED <<err, ipfs_calls, log>>
    /\ UNCHANGED <<current_chain, gas_price, gas_balance, client, daemon, abi,
                   bytecode, estimated_gas, construct_txn, signed, sent,
                   tx_receipt, contr_info, contr_address, towrite, file, file0,
                   ens_calls, ens_state>>

-----------------------------------------------------------------------------
(* _assign_ens *)

ShouldAssignEns_always(chain) == TRUE

\* line 87: the environment gate
ShouldAssignEns(chain) == chain = "ropsten"

EnsOwner == "0xB4d9313EE835b3d3eE7759826e1F3C3Ac23dFaf3"
EnsResolver == "0x12299799a50340FB860D276805E78550cBaD3De3"
EnsSubdomain == "tub.blockcerts.eth"

\* w3.toChecksumAddress: the mixed-case form of an address, whatever its case
ToChecksumAddress(a) ==
    CASE a \in {"0xAb", "0xab", "0xAB"} -> "0xAb"
      [] a \in {"0xCd", "0xcd", "0xCD"} -> "0xCd"
      [] OTHER -> "invalid"

\* content_hash.encode('ipfs-ns', hash) and content_hash.decode
ContentHashEncode(h) == "e301" \o h
ContentHashDecode(c) ==
    IF \E h \in IpfsHashes : ContentHashEncode(h) = c
    THEN CHOOSE h \in IpfsHashes : ContentHashEncode(h) = c
    ELSE "invalid"

EnsPlan_always_content(cl) ==
    <<"setSubnodeOwner", "setResolver", "setAddr", "setName",
      "setContenthash", "addr", "name", "contenthash">>

\* lines 164-189: the calls of _assign_ens, in program order
EnsPlan(cl) ==
    <<"setSubnodeOwner", "setResolver", "setAddr", "setName">>
    \o (IF cl # "None" THEN <<"setContenthash">> ELSE <<>>)
    \o <<"addr", "name">>
    \o (IF cl # "None" THEN <<"contenthash">> ELSE <<>>)

\* a binder that takes the address from somewhere else than this run
EnsArg_stale(m) ==
    CASE m = "setSubnodeOwner" -> EnsOwner
      [] m = "setResolver" -> EnsResolver
      [] m = "setAddr" -> ToChecksumAddress("0xAB")
      [] m = "setName" -> EnsSubdomain
      [] m = "setContenthash" -> ContentHashEncode(ipfs_hash)
      [] OTHER -> ""

\* the argument a call is made with
EnsArg(m) ==
    CASE m = "setSubnodeOwner" -> EnsOwner
      [] m = "setResolver" -> EnsResolver
      [] m = "setAddr" -> ToChecksumAddress(contr_address)
      [] m = "setName" -> EnsSubdomain
      [] m = "setContenthash" -> ContentHashEncode(ipfs_hash)
      [] OTHER -> ""

\* the effect of a transact on the chain
EnsApply(st, m, arg) ==
    CASE m = "setSubnodeOwner" -> [st EXCEPT !.owner = arg]
      [] m = "setResolver" -> [st EXCEPT !.resolver = arg]
      [] m = "setAddr" -> [st EXCEPT !.addr = arg]
      [] m = "setName" -> [st EXCEPT !.name = arg]
      [] m = "setContenthash" -> [st EXCEPT !.contenthash = arg]
      [] OTHER -> st

\* what a call reads back
EnsResult(st, m) ==
    CASE m = "addr" -> st.addr
      [] m = "name" -> st.name
      [] m = "contenthash" -> ContentHashDecode(st.contenthash)
      [] OTHER -> ""

\* lines 87-88 on another chain: _assign_ens is not called
skip_ens ==
    /\ UNCHANGED <<other_vars, cert_vars, receipt_on_chain>>
    /\ pc = "published"
    /\ ~ShouldAssignEns(current_chain)
    /\ pc' = "named"
    /\ UNCHANGED <<err, current_chain, gas_price, gas_balance, client, daemon,
                   abi, bytecode, estimated_gas, construct_txn, signed, sent,
                   tx_receipt, contr_info, contr_address, towrite, file, file0,
                   ipfs_hash, ipfs_calls, ens_calls, ens_state, log, stages>>

\* one call of _assign_ens; after the last one, line 192 logs and returns
assign_ens ==
    /\ UNCHANGED <<other_vars, cert_vars, receipt_on_chain>>
    /\ pc = "published"
    /\ ShouldAssignEns(current_chain)
    /\ Len(ens_calls) < Len(EnsPlan(client))
    /\ LET m == EnsPlan(client)[Len(ens_calls) + 1]
           arg == EnsArg(m)
           last == Len(ens_calls) + 1 = Len(EnsPlan(client))
       IN  \/ /\ arg # "invalid"
              /\ ens_state' = EnsApply(ens_state, m, arg)
              /\ ens_calls' = Append(ens_calls,
                     [method |-> m, arg |-> arg,
                      result |-> EnsResult(ens_state, m)])
              /\ contr_address' = IF m = "setAddr" THEN arg ELSE contr_address
              /\ IF last
                 THEN /\ pc' = "named"
                      /\ log' = Logged("set contr", ens_state.addr)
                      /\ stages' = Append(stages, "NameBound")
                 ELSE UNCHANGED <<pc, log, stages>>
              /\ UNCHANGED err
           \/ /\ Raise("raised", IF arg = "invalid" THEN "ValueError" ELSE "EnsError")
              /\ UNCHANGED <<ens_state, ens_calls, contr_address, log, stages>>
    /\ UNCHANGED <<current_chain, gas_price, gas_balance, client, daemon, abi,
                   bytecode, estimated_gas, construct_txn, signed, sent,
                   tx_receipt, contr_info, towrite, file, file0, ipfs_hash,
                   ipfs_calls>>

-----------------------------------------------------------------------------
(* _update_ens_content: closing the content channel, and the end of the run *)

\* lines 89-91
shutdown ==
    /\ UNCHANGED <<other_vars, cert_vars, receipt_on_chain>>
    /\ pc = "named"
    /\ IF client # "None"
       THEN \/ /\ ipfs_calls' = ipfs_calls \o <<[op |-> "shutdown", arg |-> ""],
                                                [op |-> "close", arg |-> ""]>>
               /\ pc' = "closed"
               /\ stages' = Append(stages, "ContentChannelClosed")
               /\ UNCHANGED err
            \/ /\ Raise("raised", "ShutdownError")
               /\ UNCHANGED <<ipfs_calls, stages>>
       ELSE /\ pc' = "closed"
            /\ stages' = Append(stages, "ContentChannelClosed")
            /\ UNCHANGED <<err, ipfs_calls>>
    /\ UNCHANGED <<current_chain, gas_price, gas_balance, client, daemon, abi,
                   bytecode, estimated_gas, construct_txn, signed, sent,
                   tx_receipt, contr_info, contr_address, towrite, file, file0,
                   ipfs_hash, ens_calls, ens_state, log>>

\* do_deploy returns and the process ends
finish ==
    /\ UNCHANGED <<other_vars, cert_vars, receipt_on_chain>>
    /\ pc = "closed"
    /\ pc' = "done"
    /\ stages' = Append(stages, "Done")
    /\ UNCHANGED <<err, current_chain, gas_price, gas_balance, client, daemon,
                   abi, bytecode, estimated_gas, construct_txn, signed, sent,
                   tx_receipt, contr_info, contr_address, towrite, file, file0,
                   ipfs_hash, ipfs_calls, ens_calls, ens_state, log>>

\* how a run can end
Terminal == {"done", "exit", "raised", "killed"}

\* the process is killed from outside (there is no cancellation)
kill ==
    /\ UNCHANGED <<other_vars, cert_vars, receipt_on_chain>>
    /\ pc \notin Terminal
    /\ pc' = "killed"
    /\ err' = "Killed"
    /\ UNCHANGED <<current_chain, gas_price, gas_balance, client, daemon, abi,
                   bytecode, estimated_gas, construct_txn, signed, sent,
                   tx_receipt, contr_info, contr_address, towrite, file, file0,
                   ipfs_hash, ipfs_calls, ens_calls, ens_state, log, stages>>

-----------------------------------------------------------------------------

Next ==
    \/ check_balance
    \/ open_ipfs_connection
    \/ compile_contract
    \/ deploy_estimate
    \/ deploy_build
    \/ deploy_sign
    \/ deploy_send
    \/ deploy_wait
    \/ deploy_read
    \/ deploy_open
    \/ deploy_dump
    \/ deploy_log
    \/ publish
    \/ skip_ens
    \/ assign_ens
    \/ shutdown
    \/ finish
    \/ kill

Spec == Init /\ [][Next]_vars

-----------------------------------------------------------------------------
(* Another run of lines 137-147 on the same record file, for another contract *)

\* the key and the record the other run stores
OtherName == "othercontract"
OtherRecord == [abi |-> "abi9", address |-> "0xEf"]

\* lines 138-144 in the other run
other_read ==
    /\ other_pc = "idle"
    /\ pc \notin {"start", "exit"}
    /\ IF file.exists /\ JsonLoads(file.text).kind = "dict"
       THEN /\ other_info' = DictSet(JsonLoads(file.text).val, OtherName,
                                     OtherRecord.abi, OtherRecord.address)
            /\ other_pc' = "merged"
       ELSE /\ other_pc' = "raised"
            /\ UNCHANGED other_info
    /\ UNCHANGED <<run_vars, receipt_on_chain, other_seen, cert_vars>>

\* lines 146-147 in the other run, taken as one step
other_write ==
    /\ other_pc = "merged"
    /\ file' = OnDisk(JsonDump(other_info))
    /\ other_pc' = "written"
    /\ other_seen' = pc
    /\ UNCHANGED <<pc, err, current_chain, gas_price, gas_balance, client,
                   daemon, abi, bytecode, estimated_gas, construct_txn, signed,
                   sent, tx_receipt, contr_info, contr_address, towrite, file0,
                   ipfs_hash, ipfs_calls, ens_calls, ens_state, log, stages>>
    /\ UNCHANGED <<receipt_on_chain, other_info, cert_vars>>

-----------------------------------------------------------------------------
(* The Certificate objects that issuer_test.py drives against the contract *)

is_cert_valid_ignores_batch(c) == c \in issued /\ c.cert \notin revoked_certs

\* Certificate.is_cert_valid(): issued, and neither the certificate nor its
\* batch is revoked
is_cert_valid(c) ==
    /\ c \in issued
    /\ c.cert \notin revoked_certs
    /\ c.batch \notin revoked_batches

\* Certificate.issue()
issue(c) ==
    /\ c \notin issued
    /\ issued' = issued \cup {c}
    /\ calls' = [calls EXCEPT ![c] = Append(@, "issue")]
    /\ UNCHANGED <<revoked_certs, revoked_batches>>
    /\ UNCHANGED <<run_vars, receipt_on_chain, other_vars>>

\* Certificate.revoke_cert()
revoke_cert(c) ==
    /\ c \in issued
    /\ "revoke_cert" \notin {calls[c][i] : i \in 1..Len(calls[c])}
    /\ revoked_certs' = revoked_certs \cup {c.cert}
    /\ calls' = [calls EXCEPT ![c] = Append(@, "revoke_cert")]
    /\ UNCHANGED <<issued, revoked_batches>>
    /\ UNCHANGED <<run_vars, receipt_on_chain, other_vars>>

\* Certificate.revoke_batch()
revoke_batch(c) ==
    /\ c \in issued
    /\ "revoke_batch" \notin {calls[c][i] : i \in 1..Len(calls[c])}
    /\ revoked_batches' = revoked_batches \cup {c.batch}
    /\ calls' = [calls EXCEPT ![c] = Append(@, "revoke_batch")]
    /\ UNCHANGED <<issued, revoked_certs>>
    /\ UNCHANGED <<run_vars, receipt_on_chain, other_vars>>

\* the tests run against a contract that is already deployed
InitCert == Init /\ file0 = Absent

NextCert ==
    \E c \in Certificates :
        \/ issue(c)
        \/ revoke_cert(c)
        \/ revoke_batch(c)

SpecCert == InitCert /\ [][NextCert]_vars

-----------------------------------------------------------------------------
(* Properties *)

Range(q) == {q[i] : i \in 1..Len(q)}

Reached(stage) == stage \in Range(stages)

\* the stages of the orchestrator, in their order
StageOrder ==
    <<"BalanceChecked", "ContentChannelOpened", "Compiled", "Deployed",
      "RecordPersisted", "ContentPublished", "NameBound",
      "ContentChannelClosed", "Done">>

StageRank(s) == CHOOSE i \in 1..Len(StageOrder) : StageOrder[i] = s

\* the run ended by itself: normally, by exit(), or by an uncaught exception
Exited == pc \in {"done", "exit", "raised"}

OldDict == JsonLoads(file0.text)
NewDict == JsonLoads(file.text)

\* C1: the balance check aborts exactly when balance < 600000 * price, and
\* an aborted run has started no daemon, compiled nothing, broadcast nothing
\* and left the record file as it was.
C1_BalanceGuard ==
    /\ pc = "checked" => gas_balance >= 600000 * gas_price
    /\ pc = "exit" =>
          /\ gas_balance < 600000 * gas_price
          /\ ~daemon /\ client = "unset"
          /\ abi = "unset" /\ bytecode = "unset"
          /\ sent = <<>> /\ ipfs_calls = <<>> /\ ens_calls = <<>>
          /\ file = file0

C1_Witness ==
    /\ pc = "exit"
    /\ gas_price = 1
    /\ gas_balance = 599999
    /\ file0.exists

\* C2: the stages a run completes appear in the orchestrator's order, none
\* twice, and the contract-creation transaction is broadcast at most once.
C2_StagesInOrder ==
    /\ \A i, j \in 1..Len(stages) :
          i < j => StageRank(stages[i]) < StageRank(stages[j])
    /\ Range(stages) \subseteq Range(StageOrder)
    /\ Len(sent) <= 1

C2_Witness ==
    /\ pc = "done"
    /\ stages = StageOrder
    /\ Len(sent) = 1

\* C3: a run that opened the content channel (the daemon connection is up)
\* and then ended has executed the content-channel close step, whatever
\* failed in between.
C3_ClosedOnEveryExit ==
    (Exited /\ Reached("ContentChannelOpened") /\ client = "connected")
        => /\ Reached("ContentChannelClosed")
           /\ [op |-> "shutdown", arg |-> ""] \in Range(ipfs_calls)

\* C4: as long as no receipt has been obtained the record file is the
\* pre-run file, so a run that fails before the receipt leaves it unchanged.
C4_NoWriteBeforeReceipt ==
    ~Reached("Deployed") => file = file0

C4_Witness ==
    /\ pc = "raised"
    /\ err = "ReceiptError"
    /\ Len(sent) = 1
    /\ file0.exists
    /\ OldDict.kind = "dict"
    /\ file = file0

\* the entry of this run is in the file
RecordOfRunInFile(addr) ==
    /\ file.exists
    /\ NewDict.kind = "dict"
    /\ HasKey(NewDict.val, ContractName)
    /\ DictGet(NewDict.val, ContractName) = [abi |-> abi, address |-> addr]

\* every address a receipt can carry
ReceiptAddresses == Addresses \cup {"null"}

\* C5: once the record is persisted the file maps the contract's name to
\* {abi, address} of this run, holds every entry it held before under another
\* name with the same value, and holds nothing else.
C5_UpdateIsMerge ==
    Reached("RecordPersisted") =>
        /\ \E a \in ReceiptAddresses :
              /\ RecordOfRunInFile(a)
              /\ ToChecksumAddress(a) = ToChecksumAddress(contr_address)
              /\ pc = "written" => a = tx_receipt.contractAddress
        /\ OldDict.kind = "dict"
        /\ DictKeys(NewDict.val) = DictKeys(OldDict.val) \cup {ContractName}
        /\ \A n \in DictKeys(OldDict.val) \ {ContractName} :
              DictGet(NewDict.val, n) = DictGet(OldDict.val, n)

C5_Witness ==
    /\ pc = "done"
    /\ Reached("RecordPersisted")
    /\ DictKeys(OldDict.val) = {ContractName, "othercontract"}
    /\ DictGet(NewDict.val, "othercontract") = [abi |-> "abi0", address |-> "0xAB"]
    /\ DictGet(NewDict.val, ContractName) = [abi |-> "abi2", address |-> "0xab"]

\* C6: at every instant, a killed process included, the record file is the
\* complete pre-run file or the complete merged file (stated for runs whose
\* receipt does not report a revert).
C6_OldOrNewAlways ==
    tx_receipt.status # 0 =>
        \/ file = file0
        \/ /\ Reached("Deployed")
           /\ OldDict.kind = "dict"
           /\ \E a \in ReceiptAddresses :
                 file = OnDisk(JsonDump(SaveData(OldDict.val, abi, a)))

\* C7: a run with a successful receipt whose record file was absent or held
\* no parseable mapping ends with a file holding exactly the new entry.
C7_AbsentOrCorruptIsEmpty ==
    (/\ Exited
     /\ Reached("Deployed")
     /\ tx_receipt.status # 0
     /\ err \notin {"OSError", "PermissionError"}
     /\ (~file0.exists \/ OldDict.kind # "dict"))
        => \E a \in ReceiptAddresses :
              file = OnDisk(JsonDump(<<Entry(ContractName, abi, a)>>))

\* C8: after a rejected broadcast or a receipt with the reverted status no
\* record of this run is written to the file.
C8_NoRecordWhenRejectedOrReverted ==
    (err = "BroadcastRejected" \/ tx_receipt.status = 0)
        => ~RecordOfRunInFile(tx_receipt.contractAddress)

\* C9: the gas limit of the transaction that is built, signed and broadcast
\* is twice the estimate of the constructor dry run.
C9_GasLimitIsTwiceEstimate ==
    estimated_gas >= 0 =>
        /\ construct_txn # NoTxn => construct_txn.gas = 2 * estimated_gas
        /\ signed # NoTxn => signed.gas = 2 * estimated_gas
        /\ \A i \in 1..Len(sent) : sent[i].gas = 2 * estimated_gas

C9_Witness ==
    /\ estimated_gas = 100000
    /\ Len(sent) = 1
    /\ sent[1].gas = 200000

\* C10: with no client after a failed connect, publishing yields the empty
\* handle and no call reaches the content store.
C10_NoPublishWithoutClient ==
    client = "None" =>
        /\ ipfs_calls = <<>>
        /\ ipfs_hash \in {"unset", ""}
        /\ Reached("ContentPublished") => ipfs_hash = ""

C10_Witness ==
    /\ client = "None"
    /\ daemon
    /\ pc = "published"
    /\ Reached("ContentPublished")
    /\ ipfs_hash = ""
    /\ ipfs_calls = <<>>

\* C11: a failure while opening the content channel never ends the run: the
\* client becomes None, the stage is passed and the run goes on to compile
\* and deploy.
C11_OpenFailureIsCaptured ==
    /\ (pc = "raised" /\ Reached("BalanceChecked"))
          => Reached("ContentChannelOpened")
    /\ Reached("ContentChannelOpened") =>
          /\ client \in {"None", "connected"}
          /\ ~daemon => client = "None"
    /\ Reached("Compiled") => client # "unset"

C11_Witness ==
    /\ client = "None"
    /\ ~daemon
    /\ Reached("Deployed")
    /\ Len(sent) = 1

\* C12: with a connected client, a failure of the publish step (client.add)
\* or of the shutdown step does not end the run: no run ends on such a
\* failure, it goes on to the channel close and to Done (stated for runs
\* whose receipt reports success).
C12_PublishFailureIsNonFatal ==
    (Exited /\ receipt_on_chain.status = 1
            /\ err \in {"IpfsAddError", "ShutdownError"})
        => (pc = "done" /\ Reached("ContentChannelClosed"))

\* C13: on a chain other than ropsten no call reaches the naming registry or
\* the resolver, whatever the client, and the run does not fail for it.
C13_NoNamingOffRopsten ==
    current_chain # "ropsten" =>
        /\ ens_calls = <<>>
        /\ ens_state = NoEnsRecords
        /\ ~Reached("NameBound")
        /\ err \notin {"EnsError", "ValueError"}
        /\ Reached("ContentPublished") /\ pc = "raised" => err = "ShutdownError"

C13_Witness ==
    /\ current_chain = "mainnet"
    /\ client = "connected"
    /\ ipfs_hash = "QmOne"
    /\ pc = "done"
    /\ ens_calls = <<>>

\* C14: a failed call of the name-binding sequence does not end the run: the
\* run goes on to the channel close and ends as a successful deployment
\* (stated for runs whose receipt reports success).
C14_NamingFailureIsNonFatal ==
    (Exited /\ receipt_on_chain.status = 1 /\ err = "EnsError")
        => (pc = "done" /\ Reached("ContentChannelClosed"))

\* C15: an issued Certificate is valid exactly as long as neither
\* revoke_cert() nor revoke_batch() has been called on it.
C15_ValidUntilRevoked ==
    \A c \in Certificates :
        "issue" \in Range(calls[c]) =>
            (is_cert_valid(c) <=>
                Range(calls[c]) \cap {"revoke_cert", "revoke_batch"} = {})

C15_Witness ==
    /\ calls[[batch |-> 100, cert |-> 50]] = <<"issue">>
    /\ is_cert_valid([batch |-> 100, cert |-> 50])
    /\ calls[[batch |-> 70, cert |-> 90]] = <<"issue", "revoke_cert">>
    /\ ~is_cert_valid([batch |-> 70, cert |-> 90])
    /\ calls[[batch |-> 705, cert |-> 905]] = <<"issue", "revoke_batch">>
    /\ ~is_cert_valid([batch |-> 705, cert |-> 905])

\* the methods called on the registry and the resolver, in order
EnsMethods == [i \in 1..Len(ens_calls) |-> ens_calls[i].method]

\* publication produced a content identifier
HasContent == ipfs_hash \notin {"unset", ""}

\* C16: a completed name binding has called setSubnodeOwner, setResolver,
\* setAddr, setName in this order, once each, then setContenthash once
\* exactly when publication produced a content identifier, then read back
\* addr and name, and contenthash exactly when setContenthash was called.
C16_NamingSequence ==
    Reached("NameBound") =>
        /\ current_chain = "ropsten"
        /\ EnsMethods =
              <<"setSubnodeOwner", "setResolver", "setAddr", "setName">>
              \o (IF HasContent THEN <<"setContenthash">> ELSE <<>>)
              \o <<"addr", "name">>
              \o (IF HasContent THEN <<"contenthash">> ELSE <<>>)
        /\ HasContent =>
              /\ ens_calls[5].arg = ContentHashEncode(ipfs_hash)
              /\ ens_calls[8].result = ipfs_hash

C16_Witness ==
    /\ pc = "done"
    /\ Reached("NameBound")
    /\ ipfs_hash = "QmTwo"
    /\ Len(ens_calls) = 8
    /\ ens_calls[8].result = "QmTwo"

C16_WitnessNoContent ==
    /\ pc = "done"
    /\ Reached("NameBound")
    /\ client = "None"
    /\ Len(ens_calls) = 6

\* C17: naming calls are made only after the record was persisted, and the
\* address given to setAddr, and read back by addr, is the contractAddress
\* of this run's receipt in checksum case, the address the record file holds
\* for the contract.
C17_BoundAddressIsDeployed ==
    /\ ens_calls # <<>> => Reached("RecordPersisted")
    /\ \A i \in 1..Len(ens_calls) :
          /\ ens_calls[i].method = "setAddr" =>
                /\ receipt_on_chain.contractAddress \in Addresses
                /\ ens_calls[i].arg =
                      ToChecksumAddress(receipt_on_chain.contractAddress)
                /\ RecordOfRunInFile(receipt_on_chain.contractAddress)
          /\ ens_calls[i].method = "addr" =>
                ens_calls[i].result =
                    ToChecksumAddress(receipt_on_chain.contractAddress)

C17_Witness ==
    /\ pc = "done"
    /\ receipt_on_chain = [status |-> 1, contractAddress |-> "0xab"]
    /\ \E i \in 1..Len(ens_calls) :
          ens_calls[i].method = "addr" /\ ens_calls[i].result = "0xAb"
    /\ ens_state.addr = "0xAb"
    /\ RecordOfRunInFile("0xab")

\* C18: a run that ends after a successful receipt without having persisted
\* the record has logged the address of the deployed contract.
C18_AddressLoggedOnPersistenceFailure ==
    (Exited /\ receipt_on_chain.status = 1 /\ ~Reached("RecordPersisted"))
        => \E i \in 1..Len(log) :
              log[i].arg = receipt_on_chain.contractAddress

\* shutdowns sent to the daemon
Shutdowns == {i \in 1..Len(ipfs_calls) : ipfs_calls[i].op = "shutdown"}

\* C19: a run that reaches Done after the connect step started a daemon
\* process has sent that daemon a shutdown, exactly once, whether or not the
\* connection succeeded (stated for runs whose receipt reports success).
C19_DaemonShutDownBeforeDone ==
    (pc = "done" /\ daemon /\ receipt_on_chain.status = 1)
        => Cardinality(Shutdowns) = 1

\* two runs on the same record file: this run as far as the end of _deploy,
\* and the other run's read-merge-write cycle at any point of it
NextConc ==
    \/ check_balance
    \/ open_ipfs_connection
    \/ compile_contract
    \/ deploy_estimate
    \/ deploy_build
    \/ deploy_sign
    \/ deploy_send
    \/ deploy_wait
    \/ deploy_read
    \/ deploy_open
    \/ deploy_dump
    \/ deploy_log
    \/ other_read
    \/ other_write

SpecConc == Init /\ [][NextConc]_vars

\* the other run wrote the file after this run had read it and before this
\* run opened it for writing
OtherWroteBetween == other_seen = "merged"

\* the entry of the other run is in the file
OtherRecordInFile ==
    /\ file.exists
    /\ NewDict.kind = "dict"
    /\ HasKey(NewDict.val, OtherName)
    /\ DictGet(NewDict.val, OtherName) = OtherRecord

\* C20 as stated: an entry the other run wrote under its own name between
\* this run's read and this run's write is still in the file after this
\* run's write (last write wins per key), here for a successful deployment.
C20_EntryWrittenBetweenSurvives ==
    (/\ Reached("RecordPersisted")
     /\ OtherWroteBetween
     /\ receipt_on_chain.status = 1) => OtherRecordInFile

\* C20 as amended: when the other run's write falls between this run's read
\* and this run's write, the last write wins for the whole file: after this
\* run's write the file is exactly the mapping this run read with this run's
\* entry set, and the entry the other run wrote is not in it.
C20_LastWriteWinsPerFile ==
    (Reached("RecordPersisted") /\ OtherWroteBetween) =>
        /\ OldDict.kind = "dict"
        /\ file = OnDisk(JsonDump(DictSet(OldDict.val, ContractName, abi,
                                          receipt_on_chain.contractAddress)))
        /\ ~OtherRecordInFile

C20_Witness ==
    /\ pc = "deployed"
    /\ OtherWroteBetween
    /\ other_pc = "written"
    /\ DictGet(other_info, OtherName) = OtherRecord
    /\ receipt_on_chain.status = 1
    /\ DictKeys(OldDict.val) = {"thirdcontract"}
    /\ DictKeys(NewDict.val) = {"thirdcontract", ContractName}
=============================================================================
